---- MODULE Spec2Model ----
(***************************************************************************)
(* fetchAll(urls, maxConcurrency, fetchImpl): bounded-concurrency fetcher   *)
(* of src/src/net/fetchAll.ts.                                              *)
(*                                                                          *)
(* One call of fetchAll is modelled.  The JavaScript run-to-completion      *)
(* semantics make every piece of runner code atomic: the synchronous part   *)
(* of the call (validation, the Promise executor and its first              *)
(* startNextBatch), and each resumption of executeRequest after its await.  *)
(* A fetchImpl that throws synchronously makes executeRequest run its       *)
(* catch and finally blocks inside the while loop of startNextBatch, which  *)
(* re-enters startNextBatch; the operators below recurse the same way.      *)
(*                                                                          *)
(* JavaScript indices are kept zero-based; a TLA+ sequence holds element i  *)
(* of a JavaScript array at position i + 1.                                 *)
(***************************************************************************)
EXTENDS Integers, Sequences, FiniteSets, TLC

\* Bounds of the model.
MaxItems == 4
MaxLimit == 3

Max(a, b) == IF a >= b THEN a ELSE b

\* Math.min
MathMin(a, b) == IF a <= b THEN a ELSE b

(***************************************************************************)
(* Input values.                                                            *)
(***************************************************************************)
\* A JavaScript number n/2 is the record [whole |-> n \div 2, half |-> n odd]:
\* whole + 0.5 when half, so 3.5 is [whole |-> 3, half |-> TRUE].
Numbers == [whole : (-1) .. MaxLimit, half : BOOLEAN]

\* Number.isInteger
NumberIsInteger(x) == ~x.half

\* x <= 0
LeqZero(x) == x.whole < 0 \/ (x.whole = 0 /\ ~x.half)

URL(i) == <<"url", i>>

\* The urls argument: an array of n distinct urls, or a value that is no array
\* (null, a string).
ArrayOfLen(n) == [isArray |-> TRUE, elems |-> [i \in 1 .. n |-> URL(i - 1)]]
NotAnArray == [isArray |-> FALSE, elems |-> << >>]
UrlInputs == {NotAnArray} \cup {ArrayOfLen(n) : n \in 0 .. MaxItems}

\* Array.isArray
ArrayIsArray(u) == u.isArray

\* What fetchImpl does when invoked on one url:
\*   "throw"      throws synchronously
\*   "resolved"   returns a value or an already fulfilled promise
\*   "rejected"   returns an already rejected promise
\*   "pendingOk"  returns a pending promise that is fulfilled later
\*   "pendingErr" returns a pending promise that is rejected later
OpKinds == {"throw", "resolved", "rejected", "pendingOk", "pendingErr"}
FailingKinds == {"throw", "rejected", "pendingErr"}
SuspendingKinds == {"pendingOk", "pendingErr"}

\* The value fetchImpl produces for a url, and the error it raises for it.
Response(u) == <<"response", u>>
ErrorOf(u) == <<"error", u>>

\* An unwritten slot of new Array(n).
Hole == <<"hole", -1>>

(***************************************************************************)
(* Errors and promises.                                                     *)
(***************************************************************************)
\* new Error(message)
NewError(msg) ==
    [kind |-> "Error", message |-> <<msg>>, errors |-> << >>, failed |-> << >>]

\* new AggregateError(errors, message)
NewAggregateError(errs, msg) ==
    [kind |-> "AggregateError", message |-> msg, errors |-> errs, failed |-> << >>]

\* Object.assign(error, { failed: list })
ObjectAssignFailed(err, list) == [err EXCEPT !.failed = list]

NoError == [kind |-> "none", message |-> << >>, errors |-> << >>, failed |-> << >>]

PendingPromise == [state |-> "pending", value |-> << >>, reason |-> NoError]

\* resolve(v) and reject(e) of a promise, v not a promise: only the first call
\* on a promise has an effect.
resolve(p, v) ==
    IF p.state = "pending" THEN [state |-> "fulfilled", value |-> v, reason |-> NoError]
    ELSE p
reject(p, e) ==
    IF p.state = "pending" THEN [state |-> "rejected", value |-> << >>, reason |-> e]
    ELSE p

(***************************************************************************)
(* Input validation.                                                        *)
(***************************************************************************)
\* Mutant of validateInputs: zero passes as a concurrency limit.
validateInputs_acceptsZero(u, mc) ==
    IF ~ArrayIsArray(u) THEN NewError("URLs must be an array")
    ELSE IF ~NumberIsInteger(mc) \/ mc.whole < 0
         THEN NewError("maxConcurrency must be a positive integer")
         ELSE NoError

\* validateInputs: the error it throws, or NoError when it returns normally.
validateInputs(u, mc) ==
    IF ~ArrayIsArray(u) THEN NewError("URLs must be an array")
    ELSE IF ~NumberIsInteger(mc) \/ LeqZero(mc)
         THEN NewError("maxConcurrency must be a positive integer")
         ELSE NoError

(***************************************************************************)
(* The closure state of one run, as a record, so that the runner's          *)
(* functions can be applied to it one after the other within one atomic     *)
(* step.  Fields urls .. nextUrlIndex and promise are the variables of the  *)
(* source; the others record what the environment and an observer see:      *)
(*   opState[i+1]  "unstarted": fetchImpl not yet invoked on urls[i];       *)
(*                 "pending": invoked, its promise not settled;             *)
(*                 "settled": its promise settled, the continuation of      *)
(*                            executeRequest(i) queued as a microtask;      *)
(*                 "done": executeRequest(i) ran its finally block          *)
(*   microtasks    the microtask queue, first to run first: an index i for  *)
(*                 the continuation of executeRequest(i), or one of the two *)
(*                 jobs by which the promise the call returns takes the     *)
(*                 outcome of the promise of line 35                        *)
(*   subscribed    the promise the call returns has called then() on the    *)
(*                 promise of line 35                                       *)
(*   invoked       the calls of fetchImpl so far: <<index, url>>            *)
(*   peak          most fetchImpl operations executing at one instant       *)
(*   depth         startNextBatch invocations now on the call stack         *)
(*   maxDepth      largest depth seen                                       *)
(*   maxAdmitted   most operations started by one invocation of             *)
(*                 startNextBatch made from a finally block                 *)
(*   nestedFinally a finally block ran while startNextBatch was on the      *)
(*                 stack                                                    *)
(*   aggregated    number of calls of handleAllCompleted                    *)
(*   finished      the indices in the order their finally blocks ran        *)
(*   inFlightSeen  every value inFlightCount has held, inside steps too     *)
(*   atCall        the counters as fetchImpl could read them at each of its *)
(*                 invocations, see Snapshot                                *)
(*   failedInTime  the indices of the operations that have failed, in the   *)
(*                 order they failed: fetchImpl threw or returned a         *)
(*                 rejected promise (at its invocation), or the promise it  *)
(*                 returned was rejected later                              *)
(***************************************************************************)
NewRun(u, eff, plan) ==
    [urls                    |-> u.elems,
     effectiveMaxConcurrency |-> eff,
     fetchImpl               |-> plan,
     results                 |-> [i \in 1 .. Len(u.elems) |-> Hole],
     failedRequests          |-> << >>,
     completedCount          |-> 0,
     inFlightCount           |-> 0,
     nextUrlIndex            |-> 0,
     promise                 |-> PendingPromise,
     opState                 |-> [i \in 1 .. Len(u.elems) |-> "unstarted"],
     microtasks              |-> << >>,
     invoked                 |-> << >>,
     peak                    |-> 0,
     depth                   |-> 0,
     maxDepth                |-> 0,
     maxAdmitted             |-> 0,
     nestedFinally           |-> FALSE,
     aggregated              |-> 0,
     finished                |-> << >>,
     inFlightSeen            |-> {0},
     atCall                  |-> {},
     failedInTime            |-> << >>,
     subscribed              |-> FALSE]

\* fetchAll is an async function that returns the promise of line 35: the
\* promise the call returns is resolved with that promise, which queues a job
\* that calls its then(); the reaction then() registers is queued as a second
\* job once the promise of line 35 is settled, and settles the promise the
\* call returns.
ResolveThenableJob == -1
ReactionJob == -2

\* The reactions of the promise of line 35 are queued when it is settled.
TriggerReactions(s) ==
    IF s.subscribed /\ s.promise.state = "pending"
    THEN [s EXCEPT !.microtasks = Append(@, ReactionJob)]
    ELSE s

\* The run record of a call that never built the closure (validation error,
\* empty input).
NoRun == NewRun(ArrayOfLen(0), 0, << >>)

\* Operations that fetchImpl was invoked on and whose promise is not settled.
Executing(s) == {i \in 0 .. Len(s.urls) - 1 : s.opState[i + 1] = "pending"}

\* The closure variables at the instant fetchImpl is invoked from line 55, the
\* operation being invoked counted among the executing ones.
Snapshot(s) ==
    [inFlightCount  |-> s.inFlightCount,
     nextUrlIndex   |-> s.nextUrlIndex,
     completedCount |-> s.completedCount,
     written        |-> Cardinality({j \in DOMAIN s.results : s.results[j] # Hole}),
     failed         |-> Len(s.failedRequests),
     executing      |-> Cardinality(Executing(s)) + 1]

\* The operators below pass a whole closure state from one to the next, as the
\* functions of the closure share its variables.  Each is written step(s)
\* applied to the one element of {s0}, so that the state it is given is
\* evaluated once and not anew at each use of the parameter.

RECURSIVE startNextBatch(_, _)
RECURSIVE batchLoop(_, _, _)
RECURSIVE executeRequest(_, _)
RECURSIVE executeRequestFinally(_, _)

\* Mutant of handleAllCompleted: a single failure is not enough to reject.
handleAllCompleted_ignoresOneFailure(s) ==
    LET counted == TriggerReactions([s EXCEPT !.aggregated = @ + 1])
    IN  IF Len(s.failedRequests) > 1
        THEN LET aggregateError ==
                     NewAggregateError(
                         [k \in 1 .. Len(s.failedRequests) |-> s.failedRequests[k].error],
                         <<Len(s.failedRequests), "of", Len(s.urls), "requests failed">>)
             IN  [counted EXCEPT !.promise =
                      reject(@, ObjectAssignFailed(aggregateError, s.failedRequests))]
        ELSE [counted EXCEPT !.promise = resolve(@, s.results)]

\* Mutant of handleAllCompleted: the summary counts the completed requests
\* where it should count the failed ones.
handleAllCompleted_countsCompleted(s) ==
    LET counted == TriggerReactions([s EXCEPT !.aggregated = @ + 1])
    IN  IF Len(s.failedRequests) > 0
        THEN LET aggregateError ==
                     NewAggregateError(
                         [k \in 1 .. Len(s.failedRequests) |-> s.failedRequests[k].error],
                         <<s.completedCount, "of", Len(s.urls), "requests failed">>)
             IN  [counted EXCEPT !.promise =
                      reject(@, ObjectAssignFailed(aggregateError, s.failedRequests))]
        ELSE [counted EXCEPT !.promise = resolve(@, s.results)]

\* handleAllCompleted, lines 70-81.
handleAllCompleted(s) ==
    LET counted == TriggerReactions([s EXCEPT !.aggregated = @ + 1])
    IN  IF Len(s.failedRequests) > 0
        THEN LET aggregateError ==
                     NewAggregateError(
                         [k \in 1 .. Len(s.failedRequests) |-> s.failedRequests[k].error],
                         <<Len(s.failedRequests), "of", Len(s.urls), "requests failed">>)
             IN  [counted EXCEPT !.promise =
                      reject(@, ObjectAssignFailed(aggregateError, s.failedRequests))]
        ELSE [counted EXCEPT !.promise = resolve(@, s.results)]

\* Mutant of executeRequestCatch: the entry carries the index of the item
\* claimed last instead of the index of the failed item.
executeRequestCatch_lastClaimedIndex(s, urlIndex, error) ==
    [s EXCEPT !.failedRequests =
                  Append(@, [index |-> s.nextUrlIndex - 1, error |-> error])]

\* The catch block of executeRequest, line 58.
executeRequestCatch(s, urlIndex, error) ==
    [s EXCEPT !.failedRequests = Append(@, [index |-> urlIndex, error |-> error])]

\* Mutant of executeRequestFinally: a completion frees its slot without asking
\* for the next item.
executeRequestFinally_noRefill(s0, urlIndex) ==
    LET step(s) ==
            LET t == [s EXCEPT !.inFlightCount = @ - 1,
                               !.inFlightSeen = @ \cup {s.inFlightCount - 1},
                               !.completedCount = @ + 1,
                               !.opState[urlIndex + 1] = "done",
                               !.finished = Append(@, urlIndex),
                               !.nestedFinally = @ \/ s.depth > 0]
            IN  IF t.completedCount = Len(t.urls)
                THEN handleAllCompleted(t)
                ELSE t
    IN  CHOOSE r \in {step(s) : s \in {s0}} : TRUE

\* Mutant of executeRequestFinally: the run is decided at the first failure
\* instead of when every operation has completed.
executeRequestFinally_failsFast(s0, urlIndex) ==
    LET step(s) ==
            LET t == [s EXCEPT !.inFlightCount = @ - 1,
                               !.inFlightSeen = @ \cup {s.inFlightCount - 1},
                               !.completedCount = @ + 1,
                               !.opState[urlIndex + 1] = "done",
                               !.finished = Append(@, urlIndex),
                               !.nestedFinally = @ \/ s.depth > 0]
            IN  IF t.completedCount = Len(t.urls) \/ Len(t.failedRequests) > 0
                THEN handleAllCompleted(t)
                ELSE startNextBatch(t, TRUE)
    IN  CHOOSE r \in {step(s) : s \in {s0}} : TRUE

\* Mutant of executeRequestFinally: once an operation has failed, a completion
\* no longer asks for the next item.
executeRequestFinally_stopsAfterFailure(s0, urlIndex) ==
    LET step(s) ==
            LET t == [s EXCEPT !.inFlightCount = @ - 1,
                               !.inFlightSeen = @ \cup {s.inFlightCount - 1},
                               !.completedCount = @ + 1,
                               !.opState[urlIndex + 1] = "done",
                               !.finished = Append(@, urlIndex),
                               !.nestedFinally = @ \/ s.depth > 0]
            IN  IF t.completedCount = Len(t.urls)
                THEN handleAllCompleted(t)
                ELSE IF Len(t.failedRequests) > 0
                     THEN t
                     ELSE startNextBatch(t, TRUE)
    IN  CHOOSE r \in {step(s) : s \in {s0}} : TRUE

\* The finally block of executeRequest(urlIndex), lines 59-67.
executeRequestFinally(s0, urlIndex) ==
    LET step(s) ==
            LET t == [s EXCEPT !.inFlightCount = @ - 1,
                               !.inFlightSeen = @ \cup {s.inFlightCount - 1},
                               !.completedCount = @ + 1,
                               !.opState[urlIndex + 1] = "done",
                               !.finished = Append(@, urlIndex),
                               !.nestedFinally = @ \/ s.depth > 0]
            IN  IF t.completedCount = Len(t.urls)
                THEN handleAllCompleted(t)
                ELSE startNextBatch(t, TRUE)
    IN  CHOOSE r \in {step(s) : s \in {s0}} : TRUE

\* Mutant of executeRequest: fetchImpl is invoked outside the try block, so a
\* synchronous throw escapes the catch and finally blocks.
executeRequest_unprotectedCall(s0, urlIndex) ==
    LET step(s) ==
            LET url  == s.urls[urlIndex + 1]
                kind == s.fetchImpl[urlIndex + 1]
                called == [s EXCEPT !.invoked = Append(@, <<urlIndex, url>>),
                                    !.peak = Max(@, Cardinality(Executing(s)) + 1),
                                    !.atCall = @ \cup {Snapshot(s)},
                                    !.failedInTime = IF kind \in {"throw", "rejected"}
                                                     THEN Append(@, urlIndex)
                                                     ELSE @]
            IN  IF kind = "throw"
                THEN called
                ELSE IF kind \in SuspendingKinds
                     THEN [called EXCEPT !.opState[urlIndex + 1] = "pending"]
                     ELSE [called EXCEPT !.opState[urlIndex + 1] = "settled",
                                         !.microtasks = Append(@, urlIndex)]
    IN  CHOOSE r \in {step(s) : s \in {s0}} : TRUE

\* executeRequest(urlIndex) up to its await, lines 52-55: fetchImpl is invoked;
\* a synchronous throw runs the catch and finally blocks at once, otherwise the
\* function suspends on the promise fetchImpl returned.
executeRequest(s0, urlIndex) ==
    LET step(s) ==
            LET url  == s.urls[urlIndex + 1]
                kind == s.fetchImpl[urlIndex + 1]
                called == [s EXCEPT !.invoked = Append(@, <<urlIndex, url>>),
                                    !.peak = Max(@, Cardinality(Executing(s)) + 1),
                                    !.atCall = @ \cup {Snapshot(s)},
                                    !.failedInTime = IF kind \in {"throw", "rejected"}
                                                     THEN Append(@, urlIndex)
                                                     ELSE @]
            IN  IF kind = "throw"
                THEN executeRequestFinally(executeRequestCatch(called, urlIndex, ErrorOf(url)),
                                           urlIndex)
                ELSE IF kind \in SuspendingKinds
                     THEN [called EXCEPT !.opState[urlIndex + 1] = "pending"]
                     ELSE [called EXCEPT !.opState[urlIndex + 1] = "settled",
                                         !.microtasks = Append(@, urlIndex)]
    IN  CHOOSE r \in {step(s) : s \in {s0}} : TRUE

\* Mutant of batchLoop: an `if` in place of the `while`, one admission per call.
batchLoop_singleAdmission(s0, admitted, fromFinally) ==
    LET step(s) ==
            IF s.inFlightCount < s.effectiveMaxConcurrency /\ s.nextUrlIndex < Len(s.urls)
            THEN LET urlIndex == s.nextUrlIndex
                     claimed == [s EXCEPT !.nextUrlIndex = @ + 1, !.inFlightCount = @ + 1,
                                         !.inFlightSeen = @ \cup {s.inFlightCount + 1}]
                     t == executeRequest(claimed, urlIndex)
                 IN  IF fromFinally THEN [t EXCEPT !.maxAdmitted = Max(@, admitted + 1)] ELSE t
            ELSE IF fromFinally THEN [s EXCEPT !.maxAdmitted = Max(@, admitted)] ELSE s
    IN  CHOOSE r \in {step(s) : s \in {s0}} : TRUE

\* Mutant of batchLoop: the slot test admits one operation too many.
batchLoop_admitsOneMore(s0, admitted, fromFinally) ==
    LET step(s) ==
            IF s.inFlightCount <= s.effectiveMaxConcurrency /\ s.nextUrlIndex < Len(s.urls)
            THEN LET urlIndex == s.nextUrlIndex
                     claimed == [s EXCEPT !.nextUrlIndex = @ + 1, !.inFlightCount = @ + 1,
                                         !.inFlightSeen = @ \cup {s.inFlightCount + 1}]
                 IN  batchLoop(executeRequest(claimed, urlIndex), admitted + 1, fromFinally)
            ELSE IF fromFinally THEN [s EXCEPT !.maxAdmitted = Max(@, admitted)] ELSE s
    IN  CHOOSE r \in {step(s) : s \in {s0}} : TRUE

\* Mutant of batchLoop: the items are claimed from the end of the list.
batchLoop_claimsFromEnd(s0, admitted, fromFinally) ==
    LET step(s) ==
            IF s.inFlightCount < s.effectiveMaxConcurrency /\ s.nextUrlIndex < Len(s.urls)
            THEN LET urlIndex == Len(s.urls) - 1 - s.nextUrlIndex
                     claimed == [s EXCEPT !.nextUrlIndex = @ + 1, !.inFlightCount = @ + 1,
                                         !.inFlightSeen = @ \cup {s.inFlightCount + 1}]
                 IN  batchLoop(executeRequest(claimed, urlIndex), admitted + 1, fromFinally)
            ELSE IF fromFinally THEN [s EXCEPT !.maxAdmitted = Max(@, admitted)] ELSE s
    IN  CHOOSE r \in {step(s) : s \in {s0}} : TRUE

\* The while loop of startNextBatch, lines 43-49; admitted counts the
\* operations this invocation has started.
batchLoop(s0, admitted, fromFinally) ==
    LET step(s) ==
            IF s.inFlightCount < s.effectiveMaxConcurrency /\ s.nextUrlIndex < Len(s.urls)
            THEN LET urlIndex == s.nextUrlIndex
                     claimed == [s EXCEPT !.nextUrlIndex = @ + 1, !.inFlightCount = @ + 1,
                                         !.inFlightSeen = @ \cup {s.inFlightCount + 1}]
                 IN  batchLoop(executeRequest(claimed, urlIndex), admitted + 1, fromFinally)
            ELSE IF fromFinally THEN [s EXCEPT !.maxAdmitted = Max(@, admitted)] ELSE s
    IN  CHOOSE r \in {step(s) : s \in {s0}} : TRUE

\* startNextBatch, lines 42-50; fromFinally tells the call of line 65 from the
\* initial one of line 84.
startNextBatch(s0, fromFinally) ==
    LET step(s) ==
            LET entered == [s EXCEPT !.depth = @ + 1, !.maxDepth = Max(@, s.depth + 1)]
            IN  [batchLoop(entered, 0, fromFinally) EXCEPT !.depth = @ - 1]
    IN  CHOOSE r \in {step(s) : s \in {s0}} : TRUE

\* Mutant of executeRequestResume: a rejection is swallowed, not recorded.
executeRequestResume_swallowsRejection(s0, urlIndex) ==
    LET step(s) ==
            LET url == s.urls[urlIndex + 1]
            IN  IF s.fetchImpl[urlIndex + 1] \in FailingKinds
                THEN executeRequestFinally(s, urlIndex)
                ELSE executeRequestFinally([s EXCEPT !.results[urlIndex + 1] = Response(url)],
                                           urlIndex)
    IN  CHOOSE r \in {step(s) : s \in {s0}} : TRUE

\* Mutant of executeRequestResume: a value is stored at the next free position
\* (completion order) instead of at its own index.
executeRequestResume_storesInCompletionOrder(s0, urlIndex) ==
    LET step(s) ==
            LET url == s.urls[urlIndex + 1]
            IN  IF s.fetchImpl[urlIndex + 1] \in FailingKinds
                THEN executeRequestFinally(executeRequestCatch(s, urlIndex, ErrorOf(url)),
                                           urlIndex)
                ELSE executeRequestFinally(
                         [s EXCEPT !.results[s.completedCount + 1] = Response(url)],
                         urlIndex)
    IN  CHOOSE r \in {step(s) : s \in {s0}} : TRUE

\* executeRequest(urlIndex) resumed after its await, lines 55-67: the awaited
\* promise was fulfilled (line 56) or rejected (catch), then the finally block.
executeRequestResume(s0, urlIndex) ==
    LET step(s) ==
            LET url == s.urls[urlIndex + 1]
            IN  IF s.fetchImpl[urlIndex + 1] \in FailingKinds
                THEN executeRequestFinally(executeRequestCatch(s, urlIndex, ErrorOf(url)),
                                           urlIndex)
                ELSE executeRequestFinally([s EXCEPT !.results[urlIndex + 1] = Response(url)],
                                           urlIndex)
    IN  CHOOSE r \in {step(s) : s \in {s0}} : TRUE

\* Mutant of fetchAllBody: no early exit for empty input.
fetchAllBody_noEarlyExit(u, mc, plan) ==
    LET invalid == validateInputs(u, mc)
    IN  IF invalid.kind # "none"
        THEN [threw |-> invalid, returnsPromise |-> FALSE, value |-> << >>,
              run |-> NoRun]
        ELSE LET effectiveMaxConcurrency == MathMin(mc.whole, Len(u.elems))
             IN  [threw |-> NoError, returnsPromise |-> TRUE, value |-> << >>,
                  run |-> startNextBatch(NewRun(u, effectiveMaxConcurrency, plan),
                                         FALSE)]

\* The body of fetchAll, lines 25-85, run synchronously by the call: the error
\* it throws (NoError if none), whether it returns the promise of line 35 or a
\* plain value (the empty array of line 29), and the closure state.
fetchAllBody(u, mc, plan) ==
    LET invalid == validateInputs(u, mc)
    IN  IF invalid.kind # "none"
        THEN [threw |-> invalid, returnsPromise |-> FALSE, value |-> << >>,
              run |-> NoRun]
        ELSE IF Len(u.elems) = 0
             THEN [threw |-> NoError, returnsPromise |-> FALSE, value |-> << >>,
                   run |-> NoRun]
             ELSE LET effectiveMaxConcurrency == MathMin(mc.whole, Len(u.elems))
                  IN  [threw |-> NoError, returnsPromise |-> TRUE, value |-> << >>,
                       run |-> startNextBatch(NewRun(u, effectiveMaxConcurrency, plan),
                                              FALSE)]

\* Mutant of fetchAll: a plain function, whose exception reaches the caller.
fetchAll_notAsync(u, mc, plan) ==
    LET body == fetchAllBody(u, mc, plan)
    IN  IF body.threw.kind # "none"
        THEN [callThrew |-> TRUE, returned |-> PendingPromise, run |-> body.run]
        ELSE IF ~body.returnsPromise
             THEN [callThrew |-> FALSE,
                   returned |-> resolve(PendingPromise, body.value),
                   run |-> body.run]
             ELSE [callThrew |-> FALSE,
                   returned |-> PendingPromise,
                   run |-> [body.run EXCEPT
                                !.microtasks = Append(@, ResolveThenableJob)]]

\* fetchAll is an async function (line 20): the call never throws to its
\* caller and returns a promise of its own.  An exception of the body rejects
\* that promise and a plain value the body returns fulfils it, both before the
\* call returns; when the body returns the promise of line 35, the promise the
\* call returns is pending at the return, whatever the state of the one of
\* line 35, and the job that subscribes it is queued.
fetchAll(u, mc, plan) ==
    LET body == fetchAllBody(u, mc, plan)
    IN  IF body.threw.kind # "none"
        THEN [callThrew |-> FALSE,
              returned |-> reject(PendingPromise, body.threw),
              run |-> body.run]
        ELSE IF ~body.returnsPromise
             THEN [callThrew |-> FALSE,
                   returned |-> resolve(PendingPromise, body.value),
                   run |-> body.run]
             ELSE [callThrew |-> FALSE,
                   returned |-> PendingPromise,
                   run |-> [body.run EXCEPT
                                !.microtasks = Append(@, ResolveThenableJob)]]

(***************************************************************************)
(* nthPlate(n): the n-th licence plate, src/src/net/fetchAll.ts lines       *)
(* 105-212.  A plate is a sequence of one-character strings.                *)
(***************************************************************************)
\* Bound of the model: how far around each block boundary the inputs go.
PlateWindow == 3

\* A JavaScript number big * 2^53 + units, plus 0.5 when half; units stays
\* within 32 bits, so Number.MAX_SAFE_INTEGER = 2^53 - 1 is [big |-> 1,
\* units |-> -1] and the first integer above it is [big |-> 1, units |-> 0].
JsNumber(b, u, h) == [big |-> b, units |-> u, half |-> h]

\* Number.isInteger(n)
IsInteger(n) == ~n.half

\* n < 0
IsNegative(n) == n.big < 0 \/ (n.big = 0 /\ n.units < 0)

\* n > Number.MAX_SAFE_INTEGER
ExceedsMaxSafeInteger(n) == n.big >= 2 \/ (n.big = 1 /\ n.units >= 0)

\* n > c, for a constant c below 2^31
GreaterThan(n, c) == n.big >= 1 \/ (n.big = 0 /\ (n.units > c \/ (n.units = c /\ n.half)))

\* Element i of a JavaScript array.
At(arr, i) == arr[i + 1]

POWERS_OF_10 == <<1, 10, 100, 1000, 10000, 100000, 1000000>>
POWERS_OF_26 == <<1, 26, 676, 17576, 456976, 11881376, 308915776>>

\* POWERS_OF_10.map((p10, L) => p10 * POWERS_OF_26[6 - L]).reduce((a, b) => a + b),
\* from position L on.
RECURSIVE SumOfBlockSizes(_)
SumOfBlockSizes(L) ==
    IF L > 6 THEN 0
    ELSE At(POWERS_OF_10, L) * At(POWERS_OF_26, 6 - L) + SumOfBlockSizes(L + 1)

MAX_N == SumOfBlockSizes(0) - 1

NoThrow == ""

\* Mutant of validateInput: the last index of the sequence is out of range.
validateInput_rejectsLastIndex(n) ==
    IF ~IsInteger(n) \/ IsNegative(n) THEN "Input must be a non-negative integer"
    ELSE IF ExceedsMaxSafeInteger(n) THEN "Input exceeds safe integer range"
    ELSE IF GreaterThan(n, MAX_N - 1) THEN "Index exceeds maximum plate sequence range"
    ELSE NoThrow

\* validateInput, lines 155-165: the message of the error it throws, or NoThrow.
validateInput(n) ==
    IF ~IsInteger(n) \/ IsNegative(n) THEN "Input must be a non-negative integer"
    ELSE IF ExceedsMaxSafeInteger(n) THEN "Input exceeds safe integer range"
    ELSE IF GreaterThan(n, MAX_N) THEN "Index exceeds maximum plate sequence range"
    ELSE NoThrow

RECURSIVE findBlockLoop(_, _, _)
\* Mutant of findBlockLoop: the end of a block is taken as inclusive.
findBlockLoop_inclusiveEnd(n, L, cumulativeSize) ==
    IF L <= 6
    THEN LET blockSize == At(POWERS_OF_10, 6 - L) * At(POWERS_OF_26, L)
         IN  IF n <= cumulativeSize + blockSize
             THEN [L |-> L, blockStart |-> cumulativeSize, threw |-> NoThrow]
             ELSE findBlockLoop(n, L + 1, cumulativeSize + blockSize)
    ELSE [L |-> L, blockStart |-> cumulativeSize,
          threw |-> "Index exceeds maximum plate sequence range"]

\* The for loop of findBlock, lines 177-188.
findBlockLoop(n, L, cumulativeSize) ==
    IF L <= 6
    THEN LET blockSize == At(POWERS_OF_10, 6 - L) * At(POWERS_OF_26, L)
         IN  IF n < cumulativeSize + blockSize
             THEN [L |-> L, blockStart |-> cumulativeSize, threw |-> NoThrow]
             ELSE findBlockLoop(n, L + 1, cumulativeSize + blockSize)
    ELSE [L |-> L, blockStart |-> cumulativeSize,
          threw |-> "Index exceeds maximum plate sequence range"]

\* findBlock, lines 174-189.
findBlock(n) == findBlockLoop(n, 0, 0)

Letters == <<"A", "B", "C", "D", "E", "F", "G", "H", "I", "J", "K", "L", "M",
             "N", "O", "P", "Q", "R", "S", "T", "U", "V", "W", "X", "Y", "Z">>
Digits == <<"0", "1", "2", "3", "4", "5", "6", "7", "8", "9">>

\* String.fromCharCode(code), for the codes of 'A' .. 'Z'
StringFromCharCode(code) == Letters[code - 64]

RECURSIVE indexToLettersLoop(_, _, _, _)
\* The for loop of indexToLetters, lines 205-209.
indexToLettersLoop(i, length, result, remaining) ==
    IF i < length
    THEN LET digit == remaining % 26
         IN  indexToLettersLoop(i + 1, length,
                                <<StringFromCharCode(65 + digit)>> \o result,
                                remaining \div 26)
    ELSE result

\* indexToLetters, lines 199-212.
indexToLetters(letterIdx, length) ==
    IF length = 0 THEN << >> ELSE indexToLettersLoop(0, length, << >>, letterIdx)

RECURSIVE NumberToString(_)
\* k.toString() for an integer k >= 0: its decimal digits, no leading zero.
NumberToString(k) ==
    IF k < 10 THEN <<At(Digits, k)>>
    ELSE NumberToString(k \div 10) \o <<At(Digits, k % 10)>>

RECURSIVE PadStart(_, _, _)
\* str.padStart(targetLength, ch)
PadStart(str, targetLength, ch) ==
    IF Len(str) >= targetLength THEN str
    ELSE PadStart(<<ch>> \o str, targetLength, ch)

\* nthPlate, lines 128-147: the message of the error thrown, or the plate.
nthPlate(n) ==
    LET invalid == validateInput(n)
    IN  IF invalid # NoThrow THEN [threw |-> invalid, plate |-> << >>]
        ELSE LET blockInfo == findBlock(n.units)
                 L == blockInfo.L
                 blockStart == blockInfo.blockStart
                 offsetInBlock == n.units - blockStart
                 numDigits == 6 - L
                 numPlatesPerLetterCombo == At(POWERS_OF_10, numDigits)
                 numPrefix == offsetInBlock % numPlatesPerLetterCombo
                 letterSuffix ==
                     indexToLetters(offsetInBlock \div numPlatesPerLetterCombo, L)
                 paddedNum == IF numDigits = 0 THEN << >>
                              ELSE PadStart(NumberToString(numPrefix), numDigits, "0")
             IN  IF blockInfo.threw # NoThrow
                 THEN [threw |-> blockInfo.threw, plate |-> << >>]
                 ELSE [threw |-> NoThrow, plate |-> paddedNum \o letterSuffix]


(***************************************************************************)
(* State of the model: one call of fetchAll and the run it starts.          *)
(***************************************************************************)
VARIABLES
    called,                  \* fetchAll has been called
    callThrew,               \* the call threw to its caller instead of returning
    urls,                    \* argument urls
    maxConcurrency,          \* argument maxConcurrency
    fetchImpl,               \* what argument fetchImpl does on each url
    effectiveMaxConcurrency, \* line 33
    results,                 \* line 36
    failedRequests,          \* line 37
    completedCount,          \* line 38
    inFlightCount,           \* line 39
    nextUrlIndex,            \* line 40
    promise,                 \* the promise of line 35
    returned,                \* the promise the call returns
    opState, microtasks, invoked, peak, maxDepth, maxAdmitted, nestedFinally,
    aggregated, finished, inFlightSeen, atCall, failedInTime,
    subscribed,              \* see NewRun
    plateInput,              \* argument n of a call of nthPlate
    plateCalled,             \* nthPlate has been called
    plateResult              \* what the call threw or returned

vars == <<called, callThrew, urls, maxConcurrency, fetchImpl,
          effectiveMaxConcurrency, results, failedRequests, completedCount,
          inFlightCount, nextUrlIndex, promise, opState, microtasks, invoked,
          peak, maxDepth, maxAdmitted, nestedFinally, aggregated, finished,
          inFlightSeen, atCall, failedInTime, subscribed, returned,
          plateInput, plateCalled, plateResult>>

plateVars == <<plateInput, plateCalled, plateResult>>

fetchVars == <<called, callThrew, urls, maxConcurrency, fetchImpl,
               effectiveMaxConcurrency, results, failedRequests, completedCount,
               inFlightCount, nextUrlIndex, promise, opState, microtasks, invoked,
               peak, maxDepth, maxAdmitted, nestedFinally, aggregated, finished,
               inFlightSeen, atCall, failedInTime, subscribed, returned>>

\* The current closure state as a record.
Run ==
    [urls                    |-> urls.elems,
     effectiveMaxConcurrency |-> effectiveMaxConcurrency,
     fetchImpl               |-> fetchImpl,
     results                 |-> results,
     failedRequests          |-> failedRequests,
     completedCount          |-> completedCount,
     inFlightCount           |-> inFlightCount,
     nextUrlIndex            |-> nextUrlIndex,
     promise                 |-> promise,
     opState                 |-> opState,
     microtasks              |-> microtasks,
     invoked                 |-> invoked,
     peak                    |-> peak,
     depth                   |-> 0,
     maxDepth                |-> maxDepth,
     maxAdmitted             |-> maxAdmitted,
     nestedFinally           |-> nestedFinally,
     aggregated              |-> aggregated,
     finished                |-> finished,
     inFlightSeen            |-> inFlightSeen,
     atCall                  |-> atCall,
     failedInTime            |-> failedInTime,
     subscribed              |-> subscribed]

\* The closure state after a step.
Commit(s0) ==
    \E s \in {s0} :
        /\ effectiveMaxConcurrency' = s.effectiveMaxConcurrency
        /\ results' = s.results
        /\ failedRequests' = s.failedRequests
        /\ completedCount' = s.completedCount
        /\ inFlightCount' = s.inFlightCount
        /\ nextUrlIndex' = s.nextUrlIndex
        /\ promise' = s.promise
        /\ opState' = s.opState
        /\ microtasks' = s.microtasks
        /\ invoked' = s.invoked
        /\ peak' = s.peak
        /\ maxDepth' = s.maxDepth
        /\ maxAdmitted' = s.maxAdmitted
        /\ nestedFinally' = s.nestedFinally
        /\ aggregated' = s.aggregated
        /\ finished' = s.finished
        /\ inFlightSeen' = s.inFlightSeen
        /\ atCall' = s.atCall
        /\ failedInTime' = s.failedInTime
        /\ subscribed' = s.subscribed

\* Before any call of fetchAll.
FetchAllIdle ==
    /\ called = FALSE
    /\ callThrew = FALSE
    /\ urls = ArrayOfLen(0)
    /\ maxConcurrency = [whole |-> 0, half |-> FALSE]
    /\ fetchImpl = << >>
    /\ effectiveMaxConcurrency = NoRun.effectiveMaxConcurrency
    /\ results = NoRun.results
    /\ failedRequests = NoRun.failedRequests
    /\ completedCount = NoRun.completedCount
    /\ inFlightCount = NoRun.inFlightCount
    /\ nextUrlIndex = NoRun.nextUrlIndex
    /\ promise = NoRun.promise
    /\ opState = NoRun.opState
    /\ microtasks = NoRun.microtasks
    /\ invoked = NoRun.invoked
    /\ peak = NoRun.peak
    /\ maxDepth = NoRun.maxDepth
    /\ maxAdmitted = NoRun.maxAdmitted
    /\ nestedFinally = NoRun.nestedFinally
    /\ aggregated = NoRun.aggregated
    /\ finished = NoRun.finished
    /\ inFlightSeen = NoRun.inFlightSeen
    /\ atCall = NoRun.atCall
    /\ failedInTime = NoRun.failedInTime
    /\ subscribed = NoRun.subscribed
    /\ returned = PendingPromise

\* Before any call of nthPlate.
NotCalled == [threw |-> NoThrow, plate |-> << >>]

Init ==
    /\ FetchAllIdle
    /\ plateInput = JsNumber(0, 0, FALSE)
    /\ plateCalled = FALSE
    /\ plateResult = NotCalled

\* The caller calls fetchAll(u, mc, fetchImpl); the step is the synchronous part
\* of the call, up to the return of the promise.
Call ==
    /\ ~called
    /\ \E u \in UrlInputs, mc \in Numbers :
         \E plan \in [1 .. Len(u.elems) -> OpKinds] :
            LET out == fetchAll(u, mc, plan)
            IN  /\ called' = TRUE
                /\ callThrew' = out.callThrew
                /\ urls' = u
                /\ maxConcurrency' = mc
                /\ fetchImpl' = plan
                /\ returned' = out.returned
                /\ Commit(out.run)
                /\ UNCHANGED plateVars

\* The promise that fetchImpl returned for urls[i] settles; the continuation of
\* executeRequest(i), suspended at the await of line 55, is queued.
Settle(i) ==
    /\ called
    /\ i + 1 \in DOMAIN opState
    /\ opState[i + 1] = "pending"
    /\ opState' = [opState EXCEPT ![i + 1] = "settled"]
    /\ microtasks' = Append(microtasks, i)
    /\ failedInTime' = IF fetchImpl[i + 1] = "pendingErr"
                       THEN Append(failedInTime, i)
                       ELSE failedInTime
    /\ UNCHANGED <<called, callThrew, urls, maxConcurrency, fetchImpl,
                   effectiveMaxConcurrency, results, failedRequests,
                   completedCount, inFlightCount, nextUrlIndex, promise, invoked,
                   peak, maxDepth, maxAdmitted, nestedFinally, aggregated, finished,
                   inFlightSeen, atCall, subscribed, returned, plateVars>>

\* The first queued continuation of executeRequest runs to its end.
Resume ==
    /\ called
    /\ microtasks # << >>
    /\ Head(microtasks) >= 0
    /\ Commit(executeRequestResume([Run EXCEPT !.microtasks = Tail(@)],
                                   Head(microtasks)))
    /\ UNCHANGED <<called, callThrew, urls, maxConcurrency, fetchImpl, returned,
                   plateVars>>

\* The job queued by the return of the call runs: then() is called on the
\* promise of line 35 for the promise the call returns.  The reaction is queued
\* at once if the promise of line 35 is settled, and waits for handleAllCompleted
\* otherwise.
ResolveThenable ==
    /\ called
    /\ microtasks # << >>
    /\ Head(microtasks) = ResolveThenableJob
    /\ Commit([Run EXCEPT !.subscribed = TRUE,
                          !.microtasks = IF promise.state = "pending"
                                         THEN Tail(@)
                                         ELSE Append(Tail(@), ReactionJob)])
    /\ UNCHANGED <<called, callThrew, urls, maxConcurrency, fetchImpl, returned,
                   plateVars>>

\* The reaction runs: the promise the call returns takes the outcome of the
\* promise of line 35.
Adopt ==
    /\ called
    /\ microtasks # << >>
    /\ Head(microtasks) = ReactionJob
    /\ returned' = IF promise.state = "fulfilled"
                   THEN resolve(returned, promise.value)
                   ELSE reject(returned, promise.reason)
    /\ Commit([Run EXCEPT !.microtasks = Tail(@)])
    /\ UNCHANGED <<called, callThrew, urls, maxConcurrency, fetchImpl, plateVars>>

Next ==
    \/ Call
    \/ \E i \in 0 .. MaxItems - 1 : Settle(i)
    \/ Resume
    \/ ResolveThenable
    \/ Adopt

Spec == Init /\ [][Next]_vars

(***************************************************************************)
(* One call of nthPlate on an input taken around the block boundaries.      *)
(***************************************************************************)
RECURSIVE Power(_, _)
Power(b, e) == IF e = 0 THEN 1 ELSE b * Power(b, e - 1)

\* Block L holds the plates of 6 - L digits and L letters.
BlockSize(L) == Power(10, 6 - L) * Power(26, L)

RECURSIVE BlockFirst(_)
\* First and last index of block L.
BlockFirst(L) == IF L = 0 THEN 0 ELSE BlockFirst(L - 1) + BlockSize(L - 1)
BlockLast(L) == BlockFirst(L) + BlockSize(L) - 1

\* Integer inputs: around both ends of every block, where the letter suffix
\* advances inside a block, below zero and beyond the last plate.
PlateUnits ==
    UNION {{BlockFirst(L) + d : d \in 0 .. PlateWindow}
           \cup {BlockLast(L) - d : d \in 0 .. PlateWindow}
           \cup {u \in {BlockFirst(L) + k * Power(10, 6 - L) + d :
                            k \in {1, 25, 26, 27}, d \in 0 .. 1} : u <= BlockLast(L)}
           : L \in 0 .. 6}
    \cup {42, 12345}
    \cup {-d : d \in 1 .. PlateWindow}
    \cup {BlockLast(6) + d : d \in 1 .. PlateWindow}

PlateInputs ==
    {JsNumber(0, u, FALSE) : u \in PlateUnits}
    \cup {JsNumber(0, u, TRUE) : u \in {-1, 0, 3, BlockLast(6)}}
    \cup {JsNumber(1, u, FALSE) : u \in {-1, 0, 2}}
    \cup {JsNumber(2, 0, FALSE)}

PlateInit ==
    /\ FetchAllIdle
    /\ plateInput \in PlateInputs
    /\ plateCalled = FALSE
    /\ plateResult = NotCalled

\* The caller calls nthPlate(plateInput).
NthPlateCall ==
    /\ ~plateCalled
    /\ plateCalled' = TRUE
    /\ plateResult' = nthPlate(plateInput)
    /\ UNCHANGED <<plateInput, fetchVars>>

PlateNext == NthPlateCall

PlateSpec == PlateInit /\ [][PlateNext]_vars


(***************************************************************************)
(* Vocabulary of the properties.                                            *)
(***************************************************************************)
\* Number of items of the call.
N == Len(urls.elems)

\* The arguments are an array and a positive integer.
ValidInputs == urls.isArray /\ ~maxConcurrency.half /\ maxConcurrency.whole >= 1

\* The call passed validation and has at least one item: a run was started.
Started == called /\ ValidInputs /\ N > 0

Indices == 0 .. N - 1

\* Items whose operation fails, by throwing or by a rejected promise.
FailingItems == {i \in Indices : fetchImpl[i + 1] \in FailingKinds}

\* Every operation has been started and has run its completion handling.
AllDone ==
    /\ nextUrlIndex = N
    /\ \A i \in Indices : opState[i + 1] = "done"
    /\ \A k \in DOMAIN microtasks : microtasks[k] < 0

\* The promise the call returns has taken the outcome of the promise of line
\* 35, or is still pending.
Delivered == returned.state # "pending"
ReturnedFollowsPromise == returned = promise \/ returned = PendingPromise

\* Positions of the failure list that name index i.
EntriesOf(list, i) == {k \in 1 .. Len(list) : list[k].index = i}

(***************************************************************************)
(* C1.  With valid inputs, the number of operations that have been invoked  *)
(* and have not settled never exceeds min(limit, items.length), at any      *)
(* instant (peak covers the instants inside a step) and for every settling  *)
(* order.                                                                   *)
(***************************************************************************)
C1_ConcurrencyBounded ==
    (called /\ ValidInputs) =>
        /\ peak <= MathMin(maxConcurrency.whole, N)
        /\ Cardinality(Executing(Run)) <= MathMin(maxConcurrency.whole, N)

\* The limit binds: two of three items execute and the third waits.
C1_Witness ==
    /\ Started /\ N = 3 /\ maxConcurrency.whole = 2
    /\ Cardinality(Executing(Run)) = 2 /\ peak = 2
    /\ opState[3] = "unstarted"

(***************************************************************************)
(* C2.  When the run succeeds, the returned list has length items.length    *)
(* and element i is the value the operation produced for items[i], whatever *)
(* the completion order and the limit.                                      *)
(***************************************************************************)
C2_ResultsInInputOrder ==
    (called /\ ValidInputs /\ returned.state = "fulfilled") =>
        /\ Len(returned.value) = N
        /\ \A i \in Indices : returned.value[i + 1] = Response(urls.elems[i + 1])

\* A successful run of three items whose completion order differs from the
\* input order.
C2_Witness ==
    /\ Started /\ N = 3 /\ returned.state = "fulfilled"
    /\ finished = <<2, 0, 1>>

(***************************************************************************)
(* C3.  The outcome is delivered only after every operation has settled:    *)
(* the returned promise is never resolved or rejected while an item is      *)
(* unstarted or an operation is in flight; an operation that never settles  *)
(* keeps the promise pending.                                               *)
(***************************************************************************)
C3_OutcomeOnlyAfterAllSettled ==
    Started =>
        /\ returned.state # "pending" => AllDone /\ completedCount = N
        /\ (\E i \in Indices : opState[i + 1] # "done") => returned.state = "pending"

\* A failure was the first completion of three, and the rejection came only
\* after the two others.
C3_Witness ==
    /\ Started /\ N = 3 /\ returned.state = "rejected"
    /\ Len(finished) = 3 /\ finished[1] \in FailingItems
    /\ fetchImpl[finished[3] + 1] \in SuspendingKinds

(***************************************************************************)
(* C4.  A completed run resolves with the results list if and only if no    *)
(* operation failed, and rejects with the combined error if and only if at  *)
(* least one operation failed; a failing run delivers no results list, not  *)
(* even a partial one.  The promise of line 35 is settled so by the last    *)
(* completion, and the promise the call returns is pending or has the same  *)
(* outcome.                                                                 *)
(***************************************************************************)
C4_ResolveIffNoFailure ==
    Started =>
        /\ promise.state = "fulfilled" <=> (AllDone /\ FailingItems = {})
        /\ promise.state = "rejected" <=> (AllDone /\ FailingItems # {})
        /\ ReturnedFollowsPromise
        /\ Delivered => AllDone
        /\ returned.state = "fulfilled" <=> (Delivered /\ FailingItems = {})
        /\ returned.state = "rejected" <=> (Delivered /\ FailingItems # {})
        /\ returned.state = "fulfilled" => returned.value = results
        /\ returned.state = "rejected" =>
               /\ returned.reason.kind = "AggregateError"
               /\ returned.value = << >>

\* A completed run in which one item failed and two succeeded, the successes
\* being written to results and not delivered.
C4_Witness ==
    /\ Started /\ N = 3 /\ AllDone
    /\ Cardinality(FailingItems) = 1
    /\ returned.state = "rejected"
    /\ Cardinality({i \in Indices : results[i + 1] # Hole}) = 2

(***************************************************************************)
(* C5.  When a run fails, the list `failed` of the combined error holds     *)
(* exactly one {index, error} entry for every item whose operation failed,  *)
(* with that item's input index and the error it raised, and no entry for   *)
(* an item whose operation succeeded.                                       *)
(***************************************************************************)
C5_FailedListExact ==
    (Started /\ returned.state = "rejected") =>
        LET failed == returned.reason.failed
        IN  /\ Len(failed) = Cardinality(FailingItems)
            /\ \A i \in Indices :
                   IF i \in FailingItems
                   THEN /\ Cardinality(EntriesOf(failed, i)) = 1
                        /\ \A k \in EntriesOf(failed, i) :
                               failed[k] = [index |-> i,
                                            error |-> ErrorOf(urls.elems[i + 1])]
                   ELSE EntriesOf(failed, i) = {}

\* The first and the last of three items failed, the middle one succeeded, and
\* the last failed before the first.
C5_Witness ==
    /\ Started /\ N = 3 /\ returned.state = "rejected"
    /\ FailingItems = {0, 2}
    /\ Len(returned.reason.failed) = 2
    /\ returned.reason.failed[1].index = 2

(***************************************************************************)
(* C6.  When the run becomes terminal (completed = N), every input index is *)
(* represented exactly once: slot i of results was written by the success   *)
(* of item i, or the failure list holds exactly one entry with index i;     *)
(* never both and never neither.                                            *)
(***************************************************************************)
C6_EveryIndexOnce ==
    (Started /\ completedCount = N) =>
        \A i \in Indices :
            LET written == results[i + 1] # Hole
                entries == Cardinality(EntriesOf(failedRequests, i))
            IN  /\ written => /\ results[i + 1] = Response(urls.elems[i + 1])
                              /\ i \notin FailingItems
                              /\ entries = 0
                /\ ~written => /\ i \in FailingItems
                               /\ entries = 1

\* A terminal run of three items with both kinds of representation.
C6_Witness ==
    /\ Started /\ N = 3 /\ completedCount = 3
    /\ results[1] # Hole /\ results[2] = Hole /\ results[3] # Hole
    /\ Len(failedRequests) = 1

(***************************************************************************)
(* C7.  For every items value, the empty list included, a call whose items  *)
(* is not an array or whose limit is zero, negative or non-integer fails    *)
(* with the validation error and never invokes the operation function.      *)
(***************************************************************************)
C7_InvalidInputsRejected ==
    (called /\ ~ValidInputs) =>
        /\ callThrew \/ returned.state = "rejected"
        /\ returned.state # "fulfilled"
        /\ ~callThrew =>
               /\ returned.reason.kind = "Error"
               /\ returned.reason.message =
                      IF ~urls.isArray
                      THEN <<"URLs must be an array">>
                      ELSE <<"maxConcurrency must be a positive integer">>
        /\ invoked = << >>
        /\ \A i \in DOMAIN opState : opState[i] = "unstarted"

\* The empty list with limit zero.
C7_Witness ==
    /\ called /\ urls = ArrayOfLen(0)
    /\ maxConcurrency = [whole |-> 0, half |-> FALSE]
    /\ returned.state = "rejected"

(***************************************************************************)
(* C8 as stated.  A validation failure is thrown to the caller by the call  *)
(* itself, before the call returns, and not delivered through the returned  *)
(* promise.                                                                 *)
(***************************************************************************)
C8_ValidationThrownSynchronously ==
    (called /\ ~ValidInputs) => (callThrew /\ returned.state = "pending")

(***************************************************************************)
(* C8 amended.  A validation failure never reaches the caller as an         *)
(* exception of the call: the call returns a promise that is already        *)
(* rejected with the validation error, no operation having been invoked;    *)
(* that error is a plain Error, while a run that fails because of its       *)
(* operations rejects with an AggregateError.                               *)
(***************************************************************************)
C8_ValidationRejectsReturnedPromise ==
    called =>
        /\ ~callThrew
        /\ ~ValidInputs => /\ returned.state = "rejected"
                           /\ returned.reason.kind = "Error"
                           /\ invoked = << >>
        /\ (ValidInputs /\ returned.state = "rejected") =>
               returned.reason.kind = "AggregateError"

\* A call with three urls and the limit 1.5.
C8_Witness ==
    /\ called /\ N = 3
    /\ maxConcurrency = [whole |-> 1, half |-> TRUE]
    /\ ~callThrew /\ returned.state = "rejected"
    /\ returned.reason.kind = "Error"

(***************************************************************************)
(* C9.  An operation that throws synchronously on items[i] is handled like  *)
(* one whose promise rejects: it adds the one entry {index: i, error: the   *)
(* thrown value} to the failure list, frees its slot and counts as          *)
(* completed; the remaining items are still started and run to completion   *)
(* before the combined failure is delivered.                                *)
(***************************************************************************)
C9_SyncThrowIsAFailure ==
    Started =>
        LET thrown == {i \in Indices : i < nextUrlIndex /\ fetchImpl[i + 1] = "throw"}
            done == {i \in Indices : opState[i + 1] = "done"}
        IN  /\ \A i \in thrown :
                   /\ opState[i + 1] = "done"
                   /\ Cardinality(EntriesOf(failedRequests, i)) = 1
                   /\ \A k \in EntriesOf(failedRequests, i) :
                          failedRequests[k] =
                              [index |-> i, error |-> ErrorOf(urls.elems[i + 1])]
                   /\ results[i + 1] = Hole
            /\ thrown # {} =>
                   /\ completedCount = Cardinality(done)
                   /\ inFlightCount = nextUrlIndex - Cardinality(done)
                   /\ nextUrlIndex < N => inFlightCount = effectiveMaxConcurrency
                   /\ promise.state # "fulfilled" /\ returned.state # "fulfilled"
                   /\ promise.state = "rejected" <=> AllDone
                   /\ ReturnedFollowsPromise
                   /\ returned.state = "rejected" =>
                          /\ Len(invoked) = N
                          /\ \A i \in thrown :
                                 Cardinality(EntriesOf(returned.reason.failed, i)) = 1

\* The first of three items threw synchronously; the two others were started
\* after it, completed later, and then the combined failure was delivered.
C9_Witness ==
    /\ Started /\ N = 3 /\ maxConcurrency.whole = 1
    /\ fetchImpl[1] = "throw" /\ fetchImpl[2] = "pendingOk" /\ fetchImpl[3] = "pendingErr"
    /\ finished = <<0, 1, 2>>
    /\ returned.state = "rejected"
    /\ Len(returned.reason.failed) = 2

(***************************************************************************)
(* C10.  With a valid limit and an empty items list the run succeeds with   *)
(* an empty result list and the operation function is never invoked.        *)
(***************************************************************************)
C10_EmptyInputSucceeds ==
    (called /\ ValidInputs /\ N = 0) =>
        /\ ~callThrew
        /\ returned.state = "fulfilled"
        /\ returned.value = << >>
        /\ invoked = << >>

\* The empty list with limit 2.
C10_Witness ==
    /\ called /\ urls = ArrayOfLen(0)
    /\ maxConcurrency = [whole |-> 2, half |-> FALSE]
    /\ returned.state = "fulfilled" /\ returned.value = << >>

(***************************************************************************)
(* C11.  The entries of the combined error's failure list appear in the     *)
(* order in which the failing operations failed in time: entry k belongs to *)
(* the k-th operation to fail (see failedInTime), not to the k-th failing   *)
(* item of the input, and the `errors` list of the combined error is in     *)
(* that same order.  The code violates it: the failure of an operation that *)
(* throws synchronously is recorded at its invocation, ahead of operations  *)
(* that failed earlier and whose continuations are still queued.            *)
(***************************************************************************)
C11_FailuresInOrderOfFailure ==
    (Started /\ returned.state = "rejected") =>
        LET failed == returned.reason.failed
            errors == returned.reason.errors
        IN  /\ Len(failed) = Len(failedInTime)
            /\ Len(errors) = Len(failedInTime)
            /\ \A k \in 1 .. Len(failedInTime) :
                   /\ failed[k].index = failedInTime[k]
                   /\ errors[k] = failed[k].error
                   /\ errors[k] = ErrorOf(urls.elems[failedInTime[k] + 1])

(***************************************************************************)
(* C12.  Pool behaviour: a slot freed by a completion is refilled in the    *)
(* same bookkeeping step whenever unstarted items remain.  In every state   *)
(* between two steps of the runner, while the run is not terminal, the      *)
(* number of admitted and unfinished operations is                          *)
(* min(effectiveLimit, N - completed): no slot idles while work is pending. *)
(***************************************************************************)
\* Items claimed by startNextBatch whose finally block has not run.
Unfinished == {i \in Indices : i < nextUrlIndex /\ opState[i + 1] # "done"}

C12_NoIdleSlot ==
    (Started /\ completedCount < N) =>
        /\ Cardinality(Unfinished) = MathMin(effectiveMaxConcurrency, N - completedCount)
        /\ inFlightCount = Cardinality(Unfinished)
        /\ nextUrlIndex < N => inFlightCount = effectiveMaxConcurrency

\* One of three items has completed under limit 2 and the third item took its
\* slot in the same step.
C12_Witness ==
    /\ Started /\ N = 3 /\ effectiveMaxConcurrency = 2
    /\ completedCount = 1 /\ nextUrlIndex = 3 /\ inFlightCount = 2
    /\ opState[3] = "pending"

(***************************************************************************)
(* C13.  When every operation suspends before settling (none completes or   *)
(* throws synchronously), the initial admission starts exactly the items    *)
(* 0 .. min(limit, N) - 1 before any completion is handled, and the peak    *)
(* number of concurrently executing operations is exactly min(limit, N),    *)
(* also when the limit is greater than N.                                   *)
(***************************************************************************)
AllSuspend == \A i \in Indices : fetchImpl[i + 1] \in SuspendingKinds

C13_InitialBatchFillsLimit ==
    (Started /\ AllSuspend) =>
        LET m == MathMin(maxConcurrency.whole, N)
        IN  /\ peak = m
            /\ finished = << >> =>
                   /\ invoked = [k \in 1 .. m |-> <<k - 1, urls.elems[k]>>]
                   /\ nextUrlIndex = m
                   /\ inFlightCount = m
                   /\ \A i \in Indices :
                          opState[i + 1] = "unstarted" <=> i >= m

\* Two items under limit 3: both are executing and nothing has completed.
C13_Witness ==
    /\ Started /\ AllSuspend /\ N = 2 /\ maxConcurrency.whole = 3
    /\ finished = << >> /\ Cardinality(Executing(Run)) = 2 /\ peak = 2

(***************************************************************************)
(* C14.  Termination: for valid non-empty inputs, if every operation that   *)
(* is started eventually settles, every item is eventually started and the  *)
(* run eventually delivers its outcome.                                     *)
(*                                                                          *)
(* FairSpec states the hypothesis (a pending promise of fetchImpl settles)  *)
(* and what the event loop guarantees (the first microtask of a queue that  *)
(* is not empty runs).                                                      *)
(***************************************************************************)
FairSpec ==
    /\ Spec
    /\ WF_vars(Resume \/ ResolveThenable \/ Adopt)
    /\ \A i \in 0 .. MaxItems - 1 : WF_vars(Settle(i))

C14_RunTerminates ==
    Started ~> (AllDone /\ Len(invoked) = N /\ returned.state # "pending")

\* Three items under limit 1 were run one after the other to the end.
C14_Witness ==
    /\ Started /\ N = 3 /\ effectiveMaxConcurrency = 1 /\ AllSuspend
    /\ AllDone /\ Len(invoked) = 3 /\ returned.state # "pending"

(***************************************************************************)
(* Vocabulary of the properties of nthPlate.                                *)
(***************************************************************************)
DigitChars == {"0", "1", "2", "3", "4", "5", "6", "7", "8", "9"}
LetterChars == {Letters[k] : k \in 1 .. 26}

\* The input is an integer of 0 .. 501363135.
InPlateRange ==
    /\ ~plateInput.half /\ plateInput.big = 0
    /\ plateInput.units >= 0 /\ plateInput.units <= BlockLast(6)

\* The sequence of k copies of c.
Repeat(c, k) == [j \in 1 .. k |-> c]

(***************************************************************************)
(* C15.  For every integer n of 0 .. MAX_N, nthPlate(n) is a string of      *)
(* exactly 6 characters: 6 - L decimal digits followed by L letters A-Z,    *)
(* L being the block that contains n.  The first index of block L maps to   *)
(* 6 - L zeros followed by L 'A's, the last to 6 - L nines followed by L    *)
(* 'Z's.                                                                    *)
(***************************************************************************)
C15_PlateShape ==
    (plateCalled /\ InPlateRange) =>
        LET n == plateInput.units
            plate == plateResult.plate
        IN  /\ plateResult.threw = NoThrow
            /\ Len(plate) = 6
            /\ \A L \in 0 .. 6 :
                   (BlockFirst(L) <= n /\ n <= BlockLast(L)) =>
                       /\ \A j \in 1 .. 6 - L : plate[j] \in DigitChars
                       /\ \A j \in 7 - L .. 6 : plate[j] \in LetterChars
                       /\ n = BlockFirst(L) => plate = Repeat("0", 6 - L) \o Repeat("A", L)
                       /\ n = BlockLast(L) => plate = Repeat("9", 6 - L) \o Repeat("Z", L)

\* The first index of block 4.
C15_Witness ==
    /\ plateCalled /\ plateInput = JsNumber(0, 27936000, FALSE)
    /\ plateResult.plate = <<"0", "0", "A", "A", "A", "A">>

(***************************************************************************)
(* C16 as stated.  nthPlate accepts exactly the indices 0 .. MAX_N, with    *)
(* MAX_N = 501363135; nthPlate(MAX_N) is 'ZZZZZZ'; every integer above      *)
(* MAX_N is rejected with 'Index exceeds maximum plate sequence range' and  *)
(* every negative n with 'Input must be a non-negative integer'; a rejected *)
(* input produces no plate.                                                 *)
(***************************************************************************)
C16_EveryIntegerAboveMaxSaysIndexExceeds ==
    plateCalled =>
        /\ MAX_N = 501363135
        /\ plateResult.threw = NoThrow <=> InPlateRange
        /\ plateInput = JsNumber(0, 501363135, FALSE) =>
               plateResult.plate = Repeat("Z", 6)
        /\ (~plateInput.half /\ GreaterThan(plateInput, 501363135)) =>
               plateResult.threw = "Index exceeds maximum plate sequence range"
        /\ IsNegative(plateInput) =>
               plateResult.threw = "Input must be a non-negative integer"
        /\ plateResult.threw # NoThrow => plateResult.plate = << >>

(***************************************************************************)
(* C16 amended.  As stated, except that only the integers above MAX_N and   *)
(* up to Number.MAX_SAFE_INTEGER are rejected with 'Index exceeds maximum   *)
(* plate sequence range'; an integer above Number.MAX_SAFE_INTEGER is       *)
(* rejected with 'Input exceeds safe integer range'.                        *)
(***************************************************************************)
C16_AcceptsExactlyTheSequence ==
    plateCalled =>
        /\ MAX_N = 501363135
        /\ plateResult.threw = NoThrow <=> InPlateRange
        /\ plateInput = JsNumber(0, 501363135, FALSE) =>
               plateResult.plate = Repeat("Z", 6)
        /\ (~plateInput.half /\ GreaterThan(plateInput, 501363135)) =>
               plateResult.threw =
                   IF ExceedsMaxSafeInteger(plateInput)
                   THEN "Input exceeds safe integer range"
                   ELSE "Index exceeds maximum plate sequence range"
        /\ IsNegative(plateInput) =>
               plateResult.threw = "Input must be a non-negative integer"
        /\ plateResult.threw # NoThrow => plateResult.plate = << >>

\* nthPlate(2^53): an integer above Number.MAX_SAFE_INTEGER.
C16_Witness ==
    /\ plateCalled /\ plateInput = JsNumber(1, 0, FALSE)
    /\ plateResult.threw = "Input exceeds safe integer range"
    /\ plateResult.plate = << >>

(***************************************************************************)
(* C17.  In every state of a run, inside a step as well as between steps,   *)
(* 0 <= inFlightCount <= effectiveMaxConcurrency, 0 <= nextUrlIndex <= N    *)
(* and 0 <= completedCount <= N; nextUrlIndex and completedCount never      *)
(* decrease (inside a step the code only increments them).  Operations that *)
(* throw synchronously are among the behaviours.                            *)
(***************************************************************************)
C17_RunStateInvariants ==
    /\ [](Started =>
            /\ effectiveMaxConcurrency = MathMin(maxConcurrency.whole, N)
            /\ inFlightCount \in inFlightSeen
            /\ \A v \in inFlightSeen : 0 <= v /\ v <= effectiveMaxConcurrency
            /\ 0 <= nextUrlIndex /\ nextUrlIndex <= N
            /\ 0 <= completedCount /\ completedCount <= N)
    /\ [][/\ nextUrlIndex' >= nextUrlIndex
          /\ completedCount' >= completedCount]_vars

\* Three items under a limit of 2, the second throwing synchronously: the
\* count went up to the limit and back to 0, both cursors reached N.
C17_Witness ==
    /\ Started /\ N = 3 /\ maxConcurrency.whole = 2
    /\ fetchImpl[2] = "throw"
    /\ inFlightSeen = {0, 1, 2} /\ inFlightCount = 0
    /\ nextUrlIndex = 3 /\ completedCount = 3

(***************************************************************************)
(* C18.  An invocation of startNextBatch made by a completion (line 65)     *)
(* starts at most one operation, whatever the operations do, synchronous    *)
(* throws included.                                                         *)
(***************************************************************************)
C18_OneAdmissionPerCompletion ==
    Started => maxAdmitted <= 1

(***************************************************************************)
(* C19.  Completion handling never runs while an invocation of              *)
(* startNextBatch is in progress, and startNextBatch is never entered while *)
(* an earlier invocation of it has not returned.                            *)
(***************************************************************************)
C19_BookkeepingNeverReentered ==
    Started => (~nestedFinally /\ maxDepth <= 1)

(***************************************************************************)
(* C20.  Operations are started in strictly increasing index order, each    *)
(* item once: the k-th call of fetchImpl is for index k-1 and is passed     *)
(* urls[k-1], so item j is invoked after items 0..j-1 and none twice; every *)
(* call of fetchImpl is matched by one claim of the admission loop (there   *)
(* are as many calls as nextUrlIndex counts), the items started are exactly *)
(* those below nextUrlIndex, and a step only appends to the calls made.     *)
(***************************************************************************)
C20_StartedInIndexOrderOnce ==
    /\ [](/\ Len(invoked) = nextUrlIndex
          /\ \A k \in 1 .. Len(invoked) : invoked[k] = <<k - 1, urls.elems[k]>>
          /\ \A i \in DOMAIN opState :
                 opState[i] # "unstarted" <=> i <= nextUrlIndex)
    /\ [][/\ Len(invoked') >= Len(invoked)
          /\ SubSeq(invoked', 1, Len(invoked)) = invoked]_vars

\* Item 1 completed before item 0 and freed the slot item 2 was started in:
\* the starts are in index order, the completions are not.
C20_Witness ==
    /\ Started /\ N = 3 /\ maxConcurrency.whole = 2
    /\ Len(invoked) = 3 /\ invoked[3] = <<2, URL(2)>>
    /\ Len(finished) >= 1 /\ finished[1] = 1
    /\ opState[1] = "pending"

(***************************************************************************)
(* C21.  handleAllCompleted is called exactly once per run, by the          *)
(* completion that makes completedCount equal to N and at no other moment:  *)
(* it has been called iff completedCount = N, never twice, the promise of   *)
(* line 35 is settled iff it has been called, the promise the call returns  *)
(* is settled only after it and with its outcome, and a settled promise     *)
(* never changes.                                                           *)
(* Every completion order and synchronous throws are among the behaviours.  *)
(***************************************************************************)
C21_AggregatedExactlyOnce ==
    /\ [](Started =>
            /\ aggregated \in {0, 1}
            /\ aggregated = 1 <=> completedCount = N
            /\ promise.state # "pending" <=> aggregated = 1
            /\ Delivered => aggregated = 1
            /\ ReturnedFollowsPromise)
    /\ [][/\ aggregated' >= aggregated
          /\ promise.state # "pending" => promise' = promise
          /\ Delivered => returned' = returned]_vars

\* Three items, the first throwing synchronously, the third completing before
\* the second: one call of handleAllCompleted, at the third completion.
C21_Witness ==
    /\ Started /\ N = 3 /\ maxConcurrency.whole = 2
    /\ fetchImpl[1] = "throw"
    /\ finished = <<0, 2, 1>>
    /\ aggregated = 1 /\ completedCount = 3
    /\ returned.state = "rejected"

(***************************************************************************)
(* C22.  A failure never aborts the run early: while an item has not        *)
(* completed the promise stays pending, however many operations have        *)
(* failed; once the promise is settled fetchImpl has been called exactly N  *)
(* times and every operation has completed; and from any state in which an  *)
(* operation has failed the run goes on to start every remaining item and   *)
(* to complete every operation.                                             *)
(***************************************************************************)
C22_FailureNeverAbortsRun ==
    /\ [](Started =>
            /\ (failedRequests # << >> /\ completedCount < N)
                   => (promise.state = "pending" /\ returned.state = "pending")
            /\ returned.state # "pending"
                   => (Len(invoked) = N /\ AllDone /\ completedCount = N))
    /\ (Started /\ failedRequests # << >>)
           ~> (Len(invoked) = N /\ AllDone /\ returned.state = "rejected")

\* The first of three items has failed while the second is in flight and the
\* third, not started then, has been started since.
C22_Witness ==
    /\ Started /\ N = 3 /\ maxConcurrency.whole = 2
    /\ fetchImpl[1] = "rejected"
    /\ finished = <<0>> /\ Len(failedRequests) = 1
    /\ opState[2] = "pending" /\ opState[3] = "pending"
    /\ returned.state = "pending"

(***************************************************************************)
(* C23.  The combined error agrees with the failure list it carries: it is  *)
(* an AggregateError whose errors list is as long as `failed`, errors[k] is *)
(* failed[k].error for every k, and its message is 'k of N requests failed' *)
(* where k is the number of items that failed, 1 <= k <= N, and N is        *)
(* urls.length.                                                             *)
(***************************************************************************)
C23_CombinedErrorMatchesFailures ==
    (Started /\ returned.state = "rejected") =>
        LET err == returned.reason
            k   == Cardinality(FailingItems)
        IN  /\ err.kind = "AggregateError"
            /\ Len(err.errors) = Len(err.failed)
            /\ \A j \in 1 .. Len(err.failed) : err.errors[j] = err.failed[j].error
            /\ 1 <= k /\ k <= N
            /\ Len(err.failed) = k
            /\ err.message = <<k, "of", N, "requests failed">>

\* Two of three items failed, the later one first: '2 of 3 requests failed',
\* and the errors are in the order of the failure list.
C23_Witness ==
    /\ Started /\ N = 3 /\ returned.state = "rejected"
    /\ returned.reason.message = <<2, "of", 3, "requests failed">>
    /\ returned.reason.failed[1].index = 1
    /\ returned.reason.failed[2].index = 0
    /\ returned.reason.errors = <<ErrorOf(URL(1)), ErrorOf(URL(0))>>

(***************************************************************************)
(* C24.  Slot i of results is written at most once, only by the success of  *)
(* item i: a slot holds nothing or the value of its own item, which         *)
(* succeeded and has completed; a step changes no slot but that of the item *)
(* whose continuation it runs, from empty to that item's value; and it      *)
(* leaves every failure entry already made as it is, the entries it adds    *)
(* being for the item it completes or for items it starts and that throw at *)
(* once, each with its own index and error.                                 *)
(***************************************************************************)
C24_SlotsWriteOnceByOwnItem ==
    /\ [](\A j \in DOMAIN results :
             results[j] # Hole =>
                 /\ results[j] = Response(urls.elems[j])
                 /\ fetchImpl[j] \notin FailingKinds
                 /\ opState[j] = "done")
    /\ [][/\ ~called => \A j \in DOMAIN results' : results'[j] = Hole
          /\ called =>
                 \A j \in DOMAIN results :
                     results'[j] # results[j] =>
                         /\ results[j] = Hole
                         /\ microtasks # << >>
                         /\ j = Head(microtasks) + 1
                         /\ results'[j] = Response(urls.elems[j])
          /\ Len(failedRequests') >= Len(failedRequests)
          /\ SubSeq(failedRequests', 1, Len(failedRequests)) = failedRequests
          /\ \A k \in Len(failedRequests) + 1 .. Len(failedRequests') :
                 LET entry == failedRequests'[k]
                 IN  /\ entry.error = ErrorOf(urls'.elems[entry.index + 1])
                     /\ \/ /\ called /\ microtasks # << >>
                           /\ entry.index = Head(microtasks)
                        \/ /\ entry.index >= nextUrlIndex
                           /\ fetchImpl'[entry.index + 1] = "throw"]_vars

\* The second of three items succeeded first and the third has failed: slot 1
\* is written, slot 0 is still empty, and item 0 is still in flight.
C24_Witness ==
    /\ Started /\ N = 3 /\ maxConcurrency.whole = 3
    /\ results[2] = Response(URL(1)) /\ results[1] = Hole /\ results[3] = Hole
    /\ Len(failedRequests) = 1 /\ failedRequests[1].index = 2
    /\ finished = <<1, 2>> /\ opState[1] = "pending"

(***************************************************************************)
(* C25.  The counters agree with each other between steps and at every      *)
(* invocation of fetchImpl, the instants at which code outside the runner   *)
(* runs: inFlightCount = nextUrlIndex - completedCount, completedCount <=   *)
(* nextUrlIndex, completedCount is the number of written slots plus the     *)
(* number of failure entries, and the operations invoked and not yet        *)
(* settled are among the inFlightCount ones.                                *)
(***************************************************************************)
C25_CountersConsistent ==
    Started =>
        /\ inFlightCount = nextUrlIndex - completedCount
        /\ completedCount <= nextUrlIndex
        /\ completedCount =
               Cardinality({j \in DOMAIN results : results[j] # Hole})
                   + Len(failedRequests)
        /\ Cardinality(Executing(Run)) <= inFlightCount
        /\ Executing(Run) \subseteq
               {i \in Indices : i < nextUrlIndex /\ opState[i + 1] # "done"}
        /\ \A c \in atCall :
               /\ c.inFlightCount = c.nextUrlIndex - c.completedCount
               /\ c.completedCount <= c.nextUrlIndex
               /\ c.completedCount = c.written + c.failed
               /\ c.executing <= c.inFlightCount

\* One item has succeeded, one has failed, one has settled without its
\* continuation having run and one executes: the counter (2) is above the
\* number of operations executing (1).
C25_Witness ==
    /\ Started /\ N = 4 /\ maxConcurrency.whole = 2
    /\ completedCount = 2 /\ nextUrlIndex = 4 /\ inFlightCount = 2
    /\ Len(failedRequests) = 1
    /\ Cardinality({j \in DOMAIN results : results[j] # Hole}) = 1
    /\ Cardinality(Executing(Run)) = 1
    /\ Len(microtasks) = 1

\* What the arguments alone determine: the value of every item, and the
\* failure entry of every failing item.
ExpectedResults == [i \in 1 .. N |-> Response(urls.elems[i])]
ExpectedFailures ==
    {[index |-> i, error |-> ErrorOf(urls.elems[i + 1])] : i \in FailingItems}

(***************************************************************************)
(* C26.  The outcome does not depend on the order in which the operations   *)
(* complete: in every run of the same urls, limit and per-item outcomes the *)
(* settled promise is rejected exactly when some item fails, a fulfilled    *)
(* promise carries the one results list the arguments determine, and a      *)
(* rejected one carries, in some order and each once, the one set of        *)
(* {index, error} entries the arguments determine.                          *)
(***************************************************************************)
C26_OutcomeIndependentOfSchedule ==
    (Started /\ returned.state # "pending") =>
        /\ returned.state = IF FailingItems = {} THEN "fulfilled" ELSE "rejected"
        /\ returned.state = "fulfilled" => returned.value = ExpectedResults
        /\ returned.state = "rejected" =>
               LET failed == returned.reason.failed
               IN  /\ {failed[k] : k \in 1 .. Len(failed)} = ExpectedFailures
                   /\ Len(failed) = Cardinality(ExpectedFailures)

\* The three operations completed in the reverse of the input order: the
\* failure list is in that order, its set of entries is the expected one.
C26_Witness ==
    /\ Started /\ N = 3 /\ returned.state = "rejected"
    /\ finished = <<2, 1, 0>>
    /\ FailingItems = {0, 2}
    /\ returned.reason.failed =
           <<[index |-> 2, error |-> ErrorOf(URL(2))],
             [index |-> 0, error |-> ErrorOf(URL(0))]>>

====
